---- MODULE Spec2Model ----
(***************************************************************************)
(* Model of the numerical generators of Web-Visualisasi:                   *)
(*   scripts/generate_lotka.py   predator-prey, two-point RK5-like scheme  *)
(*   scripts/generate_sei.py     SEI1I2R, RK4 against RK7                  *)
(*   scripts/generate_chaos.py   Lorenz / Chen / Rossler, RK4 against RK5  *)
(*                                                                         *)
(* Real numbers are exact rationals <<n, d>> (d > 0, lowest terms).  The   *)
(* floating-point results of the program differ from them by rounding      *)
(* only; where rounding can change a result the program computes from them *)
(* (the integer cast of np.linspace) the model takes every outcome.        *)
(*                                                                         *)
(* Arrays are 1-based sequences; a Python index k is position k + 1.       *)
(***************************************************************************)
EXTENDS Integers, Sequences, FiniteSets, TLC

VARIABLES
    \* downsample_series: one call
    dsPc, dsArray, dsLimit, dsIdx, dsOut,
    \* generate_chaos.py __main__: one run of the script
    pc, argv, h, y0, system_params, data_payload, min_len,
    \* one call of an integrator: improved_rk5_lotka_volterra, solve_ode,
    \* or rk4 / rk7 of generate_sei.py
    rkPc, rkArgs, t_arr, y_arr, step_i, current_y, y_log,
    \* the time grids of the integrator runs of one session over the same
    \* time span and step
    gridArgs, grids,
    \* one call of simulate_lotka_volterra or simulate_sei_model
    simPc, simArgs, locals, result,
    \* run.py Handler.do_POST: one request
    httpPc, request, headers_buffer, wfile, status_lines, script_runs

dsVars == <<dsPc, dsArray, dsLimit, dsIdx, dsOut>>

chaosVars == <<pc, argv, h, y0, system_params, data_payload, min_len>>

rkVars == <<rkPc, rkArgs, t_arr, y_arr, step_i, current_y, y_log>>

gridVars == <<gridArgs, grids>>

simVars == <<simPc, simArgs, locals, result>>

httpVars == <<httpPc, request, headers_buffer, wfile, status_lines, script_runs>>

vars == <<dsVars, chaosVars, rkVars, gridVars, simVars, httpVars>>

-----------------------------------------------------------------------------
(* Exact rational arithmetic.                                              *)

Abs(x) == IF x < 0 THEN -x ELSE x

Min(a, b) == IF a <= b THEN a ELSE b

Max(a, b) == IF a >= b THEN a ELSE b

RECURSIVE GCD(_, _)
GCD(a, b) == IF b = 0 THEN a ELSE GCD(b, a % b)

\* The one element of a singleton set.  An operator argument is evaluated
\* wherever it is used; binding it as the element of a singleton evaluates it
\* once, which keeps the nested stage formulas linear to evaluate.
Only(S) == CHOOSE x \in S : TRUE

QNorm(n, d) ==
    LET s == IF d < 0 THEN -1 ELSE 1
        g == GCD(Abs(n), Abs(d))
    IN  IF n = 0 THEN <<0, 1>> ELSE <<(s * n) \div g, (s * d) \div g>>

Q(n, d) == Only({QNorm(x, y) : x \in {n}, y \in {d}})

QInt(k) == <<k, 1>>

QAddV(a, b) ==
    LET g == GCD(a[2], b[2])
    IN  QNorm(a[1] * (b[2] \div g) + b[1] * (a[2] \div g), (a[2] \div g) * b[2])

QAdd(a, b) == Only({QAddV(x, y) : x \in {a}, y \in {b}})

QNeg(a) == Only({<<-x[1], x[2]>> : x \in {a}})

QSub(a, b) == Only({QAddV(x, <<-y[1], y[2]>>) : x \in {a}, y \in {b}})

QMulV(a, b) ==
    LET g1 == GCD(Abs(a[1]), b[2])
        g2 == GCD(Abs(b[1]), a[2])
    IN  IF a[1] = 0 \/ b[1] = 0 THEN <<0, 1>>
        ELSE QNorm((a[1] \div g1) * (b[1] \div g2), (a[2] \div g2) * (b[2] \div g1))

QMul(a, b) == Only({QMulV(x, y) : x \in {a}, y \in {b}})

QDiv(a, b) == Only({QMulV(x, QNorm(y[2], y[1])) : x \in {a}, y \in {b}})

QLtV(a, b) ==
    LET g == GCD(a[2], b[2]) IN a[1] * (b[2] \div g) < b[1] * (a[2] \div g)

QLt(a, b) == Only({QLtV(x, y) : x \in {a}, y \in {b}})

QLe(a, b) == Only({~QLtV(y, x) : x \in {a}, y \in {b}})

QAbs(a) == Only({<<Abs(x[1]), x[2]>> : x \in {a}})

\* floor and ceiling of a rational
QFloor(a) == Only({x[1] \div x[2] : x \in {a}})

QCeil(a) == Only({-((-x[1]) \div x[2]) : x \in {a}})

\* Python int(x): truncation toward zero
PyInt(a) ==
    Only({IF x[1] >= 0 THEN x[1] \div x[2] ELSE -((-x[1]) \div x[2]) : x \in {a}})

RECURSIVE IsPow2(_)
IsPow2(k) == IF k <= 1 THEN k = 1 ELSE IF k % 2 = 1 THEN FALSE ELSE IsPow2(k \div 2)

-----------------------------------------------------------------------------
(* np.linspace(0, stop, num, dtype=int), the index vector of               *)
(* downsample_series, of the snapshots and of the stage mapping.           *)
(* numpy computes step = stop / (num - 1), y[j] = j * step, overwrites the *)
(* last entry by stop when num > 1, and floors to integers.                *)

\* the floor of the exact value j * stop / (num - 1), j = 0 .. num - 1
linspace_floor_noendpoint(stop, num) ==
    [j \in 1..num |-> ((j - 1) * stop) \div num]

linspace_floor(stop, num) ==
    [j \in 1..num |->
        IF num = 1 THEN 0
        ELSE IF j = num THEN stop
        ELSE ((j - 1) * stop) \div (num - 1)]

\* Interior positions whose exact value is an integer k while the step
\* stop / (num - 1) is no binary fraction: the float product j * step may
\* fall just below k, and the cast then yields k - 1 (for instance
\* stop = 30, num = 23, j = 11 yields 14, not 15).
FuzzPos(stop, num) ==
    IF num < 3 \/ stop = 0 THEN {}
    ELSE {j \in 2..(num - 1) :
            /\ ((j - 1) * stop) % (num - 1) = 0
            /\ ~IsPow2((num - 1) \div GCD(stop, num - 1))}

\* every index vector the cast can produce
linspace_int(stop, num) ==
    {[j \in 1..num |-> linspace_floor(stop, num)[j] - (IF j \in F THEN 1 ELSE 0)] :
        F \in SUBSET FuzzPos(stop, num)}

\* arr[idx] (numpy fancy indexing with 0-based indices)
Take(arr, idx) == [j \in 1..Len(idx) |-> arr[idx[j] + 1]]

Iota(n) == [j \in 1..n |-> j - 1]

-----------------------------------------------------------------------------
(* downsample_series(array, limit)                                         *)

MaxLen == 10

MaxLimit == 8

\* the arrays handed to downsample_series are time grids and state columns:
\* distinct values, here base + 3 * k at index k
InputArrays == {[j \in 1..n |-> b + 3 * (j - 1)] : n \in 0..MaxLen, b \in {0, 7}}

\* the index vectors of the elements downsample_series may return
downsample_idx(n, limit) ==
    IF n <= limit THEN {Iota(n)} ELSE linspace_int(n - 1, limit)

DsIdle ==
    /\ dsPc = "idle"
    /\ dsArray = <<>>
    /\ dsLimit = 0
    /\ dsIdx = <<>>
    /\ dsOut = <<>>

DsInit ==
    /\ dsPc = "call"
    /\ dsArray \in InputArrays
    /\ dsLimit \in 0..MaxLimit
    /\ dsIdx = <<>>
    /\ dsOut = <<>>

DownsampleSeries ==
    /\ dsPc = "call"
    /\ \E idx \in downsample_idx(Len(dsArray), dsLimit) :
          /\ dsIdx' = idx
          /\ dsOut' = Take(dsArray, idx)
    /\ dsPc' = "returned"
    /\ UNCHANGED <<dsArray, dsLimit>>
    /\ UNCHANGED <<chaosVars, rkVars, gridVars, simVars, httpVars>>

DsNext == DownsampleSeries


-----------------------------------------------------------------------------
(* generate_chaos.py: defaults, override parsing, solve_ode, comparison.   *)

T_START == 0

T_END == 50

H_DEFAULT == Q(1, 100)

Y0_DEFAULT == <<QInt(1), QInt(1), QInt(1)>>

SYSTEM_PARAMS_DEFAULT ==
    [Lorenz  |-> [sigma |-> QInt(10), rho |-> QInt(28), beta |-> Q(8, 3)],
     Chen    |-> [a |-> QInt(35), b |-> QInt(3), c |-> QInt(28)],
     Rossler |-> [a |-> Q(1, 5), b |-> Q(1, 5), c |-> Q(57, 10)]]

\* systems_map, in insertion order
SystemNames == <<"Lorenz", "Chen", "Rossler">>

\* A JSON value of the override: a number float() converts, or anything
\* float() raises on (a non-numeric string, null, a list, an object).
Num(q) == [ok |-> TRUE, v |-> q]

NotANumber == [ok |-> FALSE, v |-> <<0, 1>>]

OverrideKeys == {"timeStep", "initX", "force", "damping", "verbose"}

OverrideValues(k) ==
    CASE k = "timeStep" -> {Num(Q(1, 50)), Num(Q(3, 200)), Num(QInt(20)), Num(QInt(0)),
                            Num(Q(-1, 100)), NotANumber}
      [] k = "initX"    -> {Num(Q(1, 2)), NotANumber}
      [] k = "force"    -> {Num(QInt(30)), NotANumber}
      [] k = "damping"  -> {Num(Q(5, 2)), NotANumber}
      [] OTHER          -> {Num(QInt(1))}

AllOverrideValues == UNION {OverrideValues(k) : k \in OverrideKeys}

\* the JSON objects sys.argv[1] may hold
OverrideObjects ==
    UNION {{f \in [K -> AllOverrideValues] : \A k \in K : f[k] \in OverrideValues(k)} :
            K \in SUBSET OverrideKeys}

\* sys.argv: no argument, text json.loads rejects, JSON that is no object
\* (a number, a list, a string, null), or a JSON object
Arguments ==
    {[kind |-> k, obj |-> <<>>] : k \in {"absent", "invalid_json", "not_object"}}
    \cup {[kind |-> "object", obj |-> f] : f \in OverrideObjects}

\* The assignments of the try block, in program order: the key read, the
\* quantity written.
OverrideSteps ==
    << <<"timeStep", "h">>,
       <<"initX", "y0[0]">>,
       <<"force", "Lorenz.rho">>,
       <<"damping", "Lorenz.beta">>,
       <<"force", "Chen.c">>,
       <<"damping", "Chen.b">>,
       <<"force", "Rossler.c">> >>

\* one assignment  target = float(value)
AssignWrong(cfg, target, q) ==
    CASE target = "h"           -> [cfg EXCEPT !.h = q]
      [] target = "y0[0]"       -> [cfg EXCEPT !.y0[1] = q]
      [] target = "Lorenz.rho"  -> [cfg EXCEPT !.system_params.Lorenz.rho = q]
      [] target = "Lorenz.beta" -> [cfg EXCEPT !.system_params.Lorenz.beta = q]
      [] target = "Chen.c"      -> [cfg EXCEPT !.system_params.Chen.c = q]
      [] target = "Chen.b"      -> [cfg EXCEPT !.system_params.Chen.b = q,
                                               !.system_params.Rossler.b = q]
      [] target = "Rossler.c"   -> [cfg EXCEPT !.system_params.Rossler.c = q]

Assign(cfg, target, q) ==
    CASE target = "h"           -> [cfg EXCEPT !.h = q]
      [] target = "y0[0]"       -> [cfg EXCEPT !.y0[1] = q]
      [] target = "Lorenz.rho"  -> [cfg EXCEPT !.system_params.Lorenz.rho = q]
      [] target = "Lorenz.beta" -> [cfg EXCEPT !.system_params.Lorenz.beta = q]
      [] target = "Chen.c"      -> [cfg EXCEPT !.system_params.Chen.c = q]
      [] target = "Chen.b"      -> [cfg EXCEPT !.system_params.Chen.b = q]
      [] target = "Rossler.c"   -> [cfg EXCEPT !.system_params.Rossler.c = q]

\* The try block from statement k on: each `if key in user_input` runs its
\* assignment; the first float() that raises leaves the block with whatever
\* was assigned before it (the except clause only prints).
RECURSIVE ApplyOverride(_, _, _)
ApplyOverride(k, cfg, obj) ==
    IF k > Len(OverrideSteps) THEN cfg
    ELSE LET key    == OverrideSteps[k][1]
             target == OverrideSteps[k][2]
         IN  IF key \notin DOMAIN obj THEN ApplyOverride(k + 1, cfg, obj)
             ELSE IF ~obj[key].ok THEN cfg
             ELSE ApplyOverride(k + 1, Assign(cfg, target, obj[key].v), obj)

\* lines 100-137
ParsedConfig(arg) ==
    LET defaults == [h |-> H_DEFAULT, y0 |-> Y0_DEFAULT,
                     system_params |-> SYSTEM_PARAMS_DEFAULT]
    IN  IF arg.kind = "object" THEN ApplyOverride(1, defaults, arg.obj) ELSE defaults


\* len(np.arange(start, stop, step)) for step # 0: ceil((stop - start) / step),
\* none when that is negative
arange_len_floor(start, stop, step) ==
    IF step[1] = 0 THEN 0 ELSE Max(0, QFloor(QDiv(QSub(stop, start), step)) + 1)

arange_len(start, stop, step) ==
    IF step[1] = 0 THEN 0 ELSE Max(0, QCeil(QDiv(QSub(stop, start), step)))

\* solve_ode raises: np.arange rejects a zero step (line 71), and with an
\* empty grid y_values[0] = y0 is an IndexError (line 73)
solve_ode_raises(t_span, step) ==
    \/ step[1] = 0
    \/ arange_len(t_span[1], t_span[2], step) = 0

\* solve_ode(method, f, t_span, y0, h, params).  t_values[i] = start + i * h is
\* held as its index i; row k of y_values is held as the run that computed it
\* and k: row 0 is y0, row k >= 1 is `method` applied to row k - 1 with step h.
solve_ode(method, f, t_span, init, step, params) ==
    LET n == arange_len(t_span[1], t_span[2], step)
    IN  [t_values |-> Iota(n),
         y_values |-> [i \in 1..n |-> [run |-> method, k |-> i - 1]]]

\* a[:m]
Truncate(a, m) == SubSeq(a, 1, Min(m, Len(a)))

\* a[::skip]
SliceUnaligned(a, skip) == a

Slice(a, skip) ==
    [j \in 1..((Len(a) + skip - 1) \div skip) |-> a[(j - 1) * skip + 1]]

\* y[:, c] of the rows y
Column(rows, c) == [j \in 1..Len(rows) |-> [run |-> rows[j].run, k |-> rows[j].k, c |-> c]]

\* skip = int(0.05 / h); if skip < 1: skip = 1
Skip(step) == Max(1, PyInt(QDiv(Q(5, 100), step)))

\* np.mean(np.abs(a - b), axis=0)[c]: the mean over the rows of |a - b|, held
\* by its construction: the operands' runs and the rows it ranges over.
MeanAbs(a, b, c) ==
    [op |-> "mean", of |-> "abs", a |-> a[1].run, b |-> b[1].run,
     first |-> <<a[1].k, b[1].k>>, last |-> <<a[Len(a)].k, b[Len(b)].k>>, c |-> c]

\* the body of the loop over systems_map (lines 151-188): min_len and the
\* entry data_payload[name]
Compare(name, init, step, params) ==
    LET t_span == <<QInt(T_START), QInt(T_END)>>
        r4 == solve_ode("rk4_classic", name, t_span, init, step, params)
        r5 == solve_ode("rk5_butcher", name, t_span, init, step, params)
        common == Min(Len(r4.y_values), Len(r5.y_values))
        y_rk4 == Truncate(r4.y_values, common)
        y_rk5 == Truncate(r5.y_values, common)
        t_rk4 == Truncate(r4.t_values, common)
        skip == Skip(step)
    IN  [min_len |-> common,
         entry |->
            [time |-> Slice(t_rk4, skip),
             rk4 |-> [x |-> Column(Slice(y_rk4, skip), 0),
                      y |-> Column(Slice(y_rk4, skip), 1),
                      z |-> Column(Slice(y_rk4, skip), 2)],
             rk5_comparison_metrics |->
                     [mae_x |-> MeanAbs(y_rk4, y_rk5, 0),
                      mae_y |-> MeanAbs(y_rk4, y_rk5, 1),
                      mae_z |-> MeanAbs(y_rk4, y_rk5, 2)],
             parameters_used |-> params]]

ChaosIdle ==
    /\ pc = "idle"
    /\ argv = [kind |-> "absent", obj |-> <<>>]
    /\ h = H_DEFAULT
    /\ y0 = Y0_DEFAULT
    /\ system_params = SYSTEM_PARAMS_DEFAULT
    /\ data_payload = <<>>
    /\ min_len = 0

\* lines 86-96
ChaosInit ==
    /\ pc = "parse"
    /\ argv \in Arguments
    /\ h = H_DEFAULT
    /\ y0 = Y0_DEFAULT
    /\ system_params = SYSTEM_PARAMS_DEFAULT
    /\ data_payload = <<>>
    /\ min_len = 0

\* lines 100-137
ParseOverride ==
    /\ pc = "parse"
    /\ LET cfg == ParsedConfig(argv)
       IN  /\ h' = cfg.h
           /\ y0' = cfg.y0
           /\ system_params' = cfg.system_params
    /\ pc' = "compute"
    /\ UNCHANGED <<argv, data_payload, min_len, dsVars, rkVars, gridVars, simVars, httpVars>>

\* the systems still to be computed, in the order of systems_map
Pending == {i \in 1..Len(SystemNames) : SystemNames[i] \notin DOMAIN data_payload}

NextSystem == SystemNames[CHOOSE i \in Pending : \A j \in Pending : i <= j]

\* one iteration of the loop of lines 150-188
ComputeSystem ==
    /\ pc = "compute"
    /\ ~solve_ode_raises(<<QInt(T_START), QInt(T_END)>>, h)
    /\ LET name == NextSystem
           r == Compare(name, y0, h, system_params[name])
       IN  /\ data_payload' = data_payload @@ (name :> r.entry)
           /\ min_len' = r.min_len
           /\ pc' = IF Cardinality(Pending) = 1 THEN "write" ELSE "compute"
    /\ UNCHANGED <<argv, h, y0, system_params, dsVars, rkVars, gridVars, simVars, httpVars>>

\* the exception of solve_ode is caught nowhere: the script ends with a
\* traceback and writes nothing
ComputeRaises ==
    /\ pc = "compute"
    /\ solve_ode_raises(<<QInt(T_START), QInt(T_END)>>, h)
    /\ pc' = "aborted"
    /\ UNCHANGED <<argv, h, y0, system_params, data_payload, min_len, dsVars, rkVars, gridVars, simVars, httpVars>>

\* lines 192-201
WritePayload ==
    /\ pc = "write"
    /\ pc' = "written"
    /\ UNCHANGED <<argv, h, y0, system_params, data_payload, min_len, dsVars, rkVars, gridVars, simVars, httpVars>>

ChaosNext == ParseOverride \/ ComputeSystem \/ ComputeRaises \/ WritePayload

-----------------------------------------------------------------------------
(* Vectors of rationals and the vector fields.                             *)

Zero == <<0, 1>>

\* Vectors are built entry by entry into tuples.
RECURSIVE VZero(_)
VZero(n) == IF n = 0 THEN <<>> ELSE Append(VZero(n - 1), Zero)

RECURSIVE VAddTo(_, _, _)
VAddTo(a, b, n) == IF n = 0 THEN <<>> ELSE Append(VAddTo(a, b, n - 1), QAdd(a[n], b[n]))

VAdd(a, b) == Only({VAddTo(x, y, Len(x)) : x \in {a}, y \in {b}})

RECURSIVE VSubTo(_, _, _)
VSubTo(a, b, n) == IF n = 0 THEN <<>> ELSE Append(VSubTo(a, b, n - 1), QSub(a[n], b[n]))

VSub(a, b) == Only({VSubTo(x, y, Len(x)) : x \in {a}, y \in {b}})

\* q * a for a scalar q
RECURSIVE VScaleTo(_, _, _)
VScaleTo(q, a, n) == IF n = 0 THEN <<>> ELSE Append(VScaleTo(q, a, n - 1), QMul(q, a[n]))

VScale(q, a) == Only({VScaleTo(x, y, Len(y)) : x \in {q}, y \in {a}})

\* a decimal literal with four (five) digits after the point
D4(n) == Q(n, 10000)

D5(n) == Q(n, 100000)

\* lotka_volterra(_t, y) with its default alpha, beta, delta, gamma
lotka_volterra(t, s) ==
    LET alpha == QInt(1)
        beta  == Q(1, 10)
        delta == Q(1, 10)
        gamma == QInt(1)
        y1 == s[1]
        y2 == s[2]
    IN  << QSub(QMul(alpha, y1), QMul(QMul(beta, y1), y2)),
           QSub(QMul(QMul(delta, y1), y2), QMul(gamma, y2)) >>

lorenz_system(t, s, p) ==
    << QMul(p.sigma, QSub(s[2], s[1])),
       QSub(QMul(s[1], QSub(p.rho, s[3])), s[2]),
       QSub(QMul(s[1], s[2]), QMul(p.beta, s[3])) >>

chen_system(t, s, p) ==
    << QMul(p.a, QSub(s[2], s[1])),
       QAdd(QSub(QMul(QSub(p.c, p.a), s[1]), QMul(s[1], s[3])), QMul(p.c, s[2])),
       QSub(QMul(s[1], s[2]), QMul(p.b, s[3])) >>

rossler_system(t, s, p) ==
    << QSub(QNeg(s[2]), s[3]),
       QAdd(s[1], QMul(p.a, s[2])),
       QAdd(p.b, QMul(s[3], QSub(s[1], p.c))) >>

sei_model(t, s) ==
    LET S == s[1]
        E == s[2]
        I1 == s[3]
        I2 == s[4]
        R == s[5]
        N == QInt(52)
        pi == Q(6, 10)
        mu == Q(4, 10)
        alpha1 == Q(9, 1000)
        alpha2 == Q(7, 1000)
        beta == Q(83, 100)
        epsilon == Q(8, 10)
        tau == Q(16, 100)
        rho == Q(25, 100)
        delta == Q(25, 100)
        gamma == Q(5, 10)
        force == QAdd(QMul(alpha1, I1), QMul(alpha2, I2))
    IN  << QSub(QMul(pi, N), QMul(S, QAdd(mu, force))),
           QSub(QMul(S, force), QMul(E, QAdd(mu, beta))),
           QSub(QAdd(QAdd(QMul(E, beta), QMul(rho, R)), QMul(delta, I2)),
                QMul(I1, QAdd(QAdd(mu, epsilon), tau))),
           QSub(QMul(I1, epsilon), QMul(I2, QAdd(QAdd(mu, delta), gamma))),
           QSub(QSub(QMul(I1, tau), QMul(I2, gamma)), QMul(R, QAdd(mu, rho))) >>

\* A callable handed to improved_rk5_lotka_volterra as f that is no field of
\* the repository: a one-component relay, 0 from the threshold 1 on and 1
\* below it.  Its values are 0 and 1, which keeps the two-point formula
\* exact away from a fixed point.
relay(t, s) == << IF QLe(QInt(1), s[1]) THEN Zero ELSE QInt(1) >>

\* f(t, y) for the callable f = [name, params]; no field reads t
FieldAt(f, t, s) ==
    CASE f.name = "lotka_volterra" -> lotka_volterra(t, s)
      [] f.name = "lorenz_system"  -> lorenz_system(t, s, f.params)
      [] f.name = "chen_system"    -> chen_system(t, s, f.params)
      [] f.name = "rossler_system" -> rossler_system(t, s, f.params)
      [] f.name = "sei_model"      -> sei_model(t, s)
      [] f.name = "relay"          -> relay(t, s)

Field(f, t, s) == Only({FieldAt(f, t, x) : x \in {s}})

-----------------------------------------------------------------------------
(* The step formulas.                                                      *)

Half(q) == QDiv(q, QInt(2))

\* the stages k so far, followed by the next stage G(k)
Then(ks, G(_)) == Only({Append(x, G(x)) : x \in {ks}})

\* the four stages of classic RK4 at (t, s): stage times t, t + h/2, t + h/2,
\* t + h
rk4_stages(f, t, s, step) ==
    LET k1(k) == Field(f, t, s)
        k2(k) == Field(f, QAdd(t, Half(step)), VAdd(s, VScale(Half(step), k[1])))
        k3(k) == Field(f, QAdd(t, Half(step)), VAdd(s, VScale(Half(step), k[2])))
        k4(k) == Field(f, QAdd(t, step), VAdd(s, VScale(step, k[3])))
    IN  Then(Then(Then(Then(<<>>, k1), k2), k3), k4)

\* (h / 6) * (k1 + 2 * k2 + 2 * k3 + k4)
rk4_increment(k, step) ==
    VScale(QDiv(step, QInt(6)),
           VAdd(VAdd(k[1], VScale(QInt(2), k[2])), VAdd(VScale(QInt(2), k[3]), k[4])))

\* generate_chaos.py rk4_classic(f, t, y, h, params)
rk4_classic(f, t, s, step) ==
    Only({VAdd(s, rk4_increment(k, step)) : k \in {rk4_stages(f, t, s, step)}})

\* generate_chaos.py rk5_butcher(f, t, y, h, params)
rk5_butcher(f, t, s, step) ==
    LET hq(a, b) == QMul(Q(a, b), step)
        k1(k) == Field(f, t, s)
        k2(k) == Field(f, QAdd(t, hq(1, 4)), VAdd(s, VScale(hq(1, 4), k[1])))
        k3(k) == Field(f, QAdd(t, hq(1, 4)),
                       VAdd(VAdd(s, VScale(hq(1, 8), k[1])), VScale(hq(1, 8), k[2])))
        k4(k) == Field(f, QAdd(t, hq(1, 2)),
                       VAdd(VSub(s, VScale(hq(1, 2), k[2])), VScale(step, k[3])))
        k5(k) == Field(f, QAdd(t, hq(3, 4)),
                       VAdd(VAdd(s, VScale(hq(3, 16), k[1])), VScale(hq(9, 16), k[4])))
        k6(k) == Field(f, QAdd(t, step),
                       VAdd(VSub(VAdd(VAdd(VSub(s, VScale(hq(3, 7), k[1])),
                                           VScale(hq(2, 7), k[2])),
                                      VScale(hq(12, 7), k[3])),
                                 VScale(hq(12, 7), k[4])),
                            VScale(hq(8, 7), k[5])))
        stages == Then(Then(Then(Then(Then(Then(<<>>, k1), k2), k3), k4), k5), k6)
    IN  Only({VAdd(s, VScale(hq(1, 90),
                             VAdd(VAdd(VAdd(VAdd(VScale(QInt(7), k[1]), VScale(QInt(32), k[3])),
                                            VScale(QInt(12), k[4])),
                                       VScale(QInt(32), k[5])),
                                  VScale(QInt(7), k[6])))) : k \in {stages}})

\* generate_lotka.py lines 26-30: the bootstrap step, its own four stages
\* and weights
bootstrap_step_unweighted(f, t, s, step) ==
    LET k1(k) == Field(f, t, s)
        k2(k) == Field(f, QAdd(t, Half(step)), VAdd(s, VScale(Half(step), k[1])))
        k3(k) == Field(f, QAdd(t, Half(step)), VAdd(s, VScale(Half(step), k[2])))
        k4(k) == Field(f, QAdd(t, step), VAdd(s, VScale(step, k[3])))
        stages == Then(Then(Then(Then(<<>>, k1), k2), k3), k4)
    IN  Only({VAdd(s, VScale(QDiv(step, QInt(4)), VAdd(VAdd(k[1], k[2]), VAdd(k[3], k[4])))) :
                k \in {stages}})

bootstrap_step(f, t, s, step) ==
    LET k1(k) == Field(f, t, s)
        k2(k) == Field(f, QAdd(t, Half(step)), VAdd(s, VScale(Half(step), k[1])))
        k3(k) == Field(f, QAdd(t, Half(step)), VAdd(s, VScale(Half(step), k[2])))
        k4(k) == Field(f, QAdd(t, step), VAdd(s, VScale(step, k[3])))
        stages == Then(Then(Then(Then(<<>>, k1), k2), k3), k4)
    IN  Only({VAdd(s, VScale(QDiv(step, QInt(6)),
                             VAdd(VAdd(k[1], VScale(QInt(2), k[2])),
                                  VAdd(VScale(QInt(2), k[3]), k[4])))) : k \in {stages}})

\* generate_lotka.py lines 35-42 and 44-51: the five stages anchored at (t, s)
five_stages(f, t, s, step) ==
    LET c(n) == QMul(D4(n), step)
        k1(k) == Field(f, t, s)
        k2(k) == Field(f, QAdd(t, c(2500)), VAdd(s, VScale(c(2500), k[1])))
        k3(k) == Field(f, QAdd(t, c(2500)),
                       VAdd(VSub(s, VScale(c(7272), k[1])), VScale(c(7322), k[2])))
        k4(k) == Field(f, QAdd(t, c(5000)),
                       VAdd(VSub(VAdd(s, VScale(c(5734), k[1])), VScale(c(22485), k[2])),
                            VScale(c(33440), k[3])))
        k5(k) == Field(f, QAdd(t, c(7500)),
                       VAdd(VAdd(VAdd(VAdd(s, VScale(c(1750), k[1])), VScale(c(121), k[2])),
                                 VScale(c(559), k[3])),
                            VScale(c(5517), k[4])))
    IN  Then(Then(Then(Then(Then(<<>>, k1), k2), k3), k4), k5)

\* lines 53-60: 1.0222 k1 - 0.0222 k_1 - 0.0961 (k2 - k_2) + 0.0295 (k3 - k_3)
\*              - 0.1 (k4 - k_4) + 0.06444 (k5 - k_5)
two_point_sum(k, l) ==
    LET a1 == VScale(D4(10222), k[1])
        b1 == VScale(D4(222), l[1])
        d2 == VScale(D4(961), VSub(k[2], l[2]))
        d3 == VScale(D4(295), VSub(k[3], l[3]))
        d4 == VScale(D4(1000), VSub(k[4], l[4]))
        d5 == VScale(D5(6444), VSub(k[5], l[5]))
    IN  VAdd(VSub(VAdd(VSub(VSub(a1, b1), d2), d3), d4), d5)

\* generate_lotka.py lines 35-60: the two-point step from the current anchor
\* (t, s) and the lagged anchor (tl, sl)
two_point_step(f, t, s, tl, sl, step) ==
    Only({VAdd(s, VScale(step, two_point_sum(k, l))) :
            k \in {five_stages(f, t, s, step)}, l \in {five_stages(f, tl, sl, step)}})

\* generate_sei.py rk4, lines 25-30, the step from grid index i (0-based)
sei_rk4_step(f, grid, s, i) ==
    LET step == QSub(grid[i + 2], grid[i + 1])
        ti == grid[i + 1]
        k1(k) == Field(f, ti, s)
        k2(k) == Field(f, QAdd(ti, Half(step)), VAdd(s, VScale(Half(step), k[1])))
        k3(k) == Field(f, QAdd(ti, Half(step)), VAdd(s, VScale(Half(step), k[2])))
        k4(k) == Field(f, QAdd(ti, step), VAdd(s, VScale(step, k[3])))
        stages == Then(Then(Then(Then(<<>>, k1), k2), k3), k4)
    IN  Only({VAdd(s, VScale(QDiv(step, QInt(6)),
                             VAdd(VAdd(k[1], VScale(QInt(2), k[2])),
                                  VAdd(VScale(QInt(2), k[3]), k[4])))) : k \in {stages}})

\* generate_sei.py rk7, lines 47-58
sei_rk7_step(f, grid, s, i) ==
    LET step == QSub(grid[i + 2], grid[i + 1])
        ti == grid[i + 1]
        hq(a, b) == QMul(Q(a, b), step)
        k1(k) == Field(f, ti, s)
        k2(k) == Field(f, QAdd(ti, hq(1, 6)), VAdd(s, VScale(hq(1, 6), k[1])))
        k3(k) == Field(f, QAdd(ti, hq(1, 3)), VAdd(s, VScale(hq(1, 12), VAdd(k[1], k[2]))))
        k4(k) == Field(f, QAdd(ti, hq(1, 2)),
                       VAdd(s, VScale(hq(1, 8), VAdd(k[1], VScale(QInt(3), k[3])))))
        k5(k) == Field(f, QAdd(ti, hq(2, 3)),
                       VAdd(s, VScale(hq(1, 6),
                                      VAdd(VSub(k[1], VScale(QInt(3), k[3])),
                                           VScale(QInt(4), k[4])))))
        k6(k) == Field(f, QAdd(ti, hq(5, 6)),
                       VAdd(s, VScale(hq(1, 150),
                                      VAdd(VAdd(VSub(VScale(QInt(11), k[1]),
                                                     VScale(QInt(54), k[3])),
                                                VScale(QInt(40), k[4])),
                                           VScale(QInt(27), k[5])))))
        k7(k) == Field(f, QAdd(ti, step),
                       VAdd(s, VScale(hq(1, 6), VAdd(VAdd(k[1], VScale(QInt(4), k[4])), k[5]))))
        stages == Then(Then(Then(Then(Then(Then(Then(<<>>, k1), k2), k3), k4), k5), k6), k7)
    IN  Only({VAdd(s, VScale(hq(1, 90),
                             VAdd(VAdd(VAdd(VAdd(VScale(QInt(7), k[1]), VScale(QInt(32), k[3])),
                                            VScale(QInt(12), k[4])),
                                       VScale(QInt(32), k[5])),
                                  VScale(QInt(7), k[7])))) : k \in {stages}})

-----------------------------------------------------------------------------
(* The integrator drivers, one loop iteration per action.                  *)

\* np.linspace(start, stop, num): num values from start to stop inclusive
linspace(start, stop, num) ==
    [j \in 1..num |->
        IF num = 1 THEN start
        ELSE IF j = num THEN stop
        ELSE QAdd(start, QMul(QInt(j - 1), QDiv(QSub(stop, start), QInt(num - 1))))]

\* np.arange(start, stop, step): start + j * step for j below the length
arange(start, stop, step) ==
    [j \in 1..arange_len(start, stop, step) |-> QAdd(start, QMul(QInt(j - 1), step))]

\* a[k] for a Python index k, negative k counting from the end
PyPos(a, k) == IF k < 0 THEN Len(a) + k + 1 ELSE k + 1

PyAt(a, k) == a[PyPos(a, k)]

\* a[k] = v
PySet(a, k, v) == [a EXCEPT ![k + 1] = v]

\* np.zeros((n, dim)) with row 0 set to init
ZerosWithInit(n, init) == [j \in 1..n |-> IF j = 1 THEN init ELSE VZero(Len(init))]

\* history of the assignments to the rows of y: how many, and by which formula
LogInit(n) == [j \in 1..n |-> IF j = 1 THEN [n |-> 1, by |-> "y0"] ELSE [n |-> 0, by |-> "zeros"]]

LogWrite(log, k, by) == [log EXCEPT ![k + 1] = [n |-> @.n + 1, by |-> by]]

\* generate_lotka.py lines 17-18
n_steps(t_span, step) == PyInt(QDiv(QSub(t_span[2], t_span[1]), step)) + 1

\* lines 17-19: the time array of improved_rk5_lotka_volterra
improved_t(t_span, step) == linspace(t_span[1], t_span[2], n_steps(t_span, step))

\* generate_chaos.py lines 70-71: the time array of solve_ode
solve_ode_t(t_span, step) == arange(t_span[1], t_span[2], step)

MaxSpan == 3

MaxBack == 2

StepSizes == {Q(1, 2), QInt(1), QInt(2)}

TimeSpans == {<<QInt(a), QInt(a + d)>> : a \in {0, 1}, d \in 1..MaxSpan}

ChaosFixedPoints ==
    { [f |-> [name |-> "lorenz_system", params |-> SYSTEM_PARAMS_DEFAULT.Lorenz],
       y0 |-> VZero(3)],
      [f |-> [name |-> "chen_system", params |-> SYSTEM_PARAMS_DEFAULT.Chen],
       y0 |-> VZero(3)],
      [f |-> [name |-> "rossler_system", params |-> [a |-> Q(1, 5), b |-> Q(1, 5), c |-> Q(1, 2)]],
       y0 |-> <<Q(1, 10), Q(-1, 2), Q(1, 2)>>] }

NoParams == <<>>

\* improved_rk5_lotka_volterra(f, t_span, y0, h, n_steps_back)
ImprovedCalls ==
    LET n_of(c) == n_steps(c.t_span, c.h)
        all == {[driver |-> "improved", method |-> "improved_rk5", f |-> fy.f, y0 |-> fy.y0,
                 t_span |-> ts, h |-> st, n_steps_back |-> b, num |-> 0] :
                    fy \in { [f |-> [name |-> "lotka_volterra", params |-> NoParams],
                              y0 |-> <<QInt(10), QInt(10)>>],
                             [f |-> [name |-> "lotka_volterra", params |-> NoParams],
                              y0 |-> <<QInt(10), QInt(5)>>],
                             [f |-> [name |-> "relay", params |-> NoParams],
                              y0 |-> <<QInt(1)>>],
                             [f |-> [name |-> "relay", params |-> NoParams],
                              y0 |-> <<Zero>>] },
                    ts \in TimeSpans, st \in StepSizes, b \in 0..MaxBack}
    IN  \* away from a fixed point the stages of the Lotka-Volterra field leave
        \* the 32-bit integers of TLC after one bootstrap step: those calls
        \* are kept to a single step
        {c \in all : c.y0 = <<QInt(10), QInt(5)>> =>
                        (n_of(c) = 2 /\ c.n_steps_back >= 1 /\ c.t_span[1] = Zero)}

\* solve_ode(method, f, t_span, y0, h, params)
SolveOdeCalls ==
    {[driver |-> "solve_ode", method |-> m, f |-> fy.f, y0 |-> fy.y0,
      t_span |-> ts, h |-> st, n_steps_back |-> 0, num |-> 0] :
        m \in {"rk4_classic", "rk5_butcher"}, fy \in ChaosFixedPoints,
        ts \in TimeSpans, st \in StepSizes}

\* rk4(f, y0, t) and rk7(f, y0, t) over t = np.linspace(start, stop, num)
SeiCalls ==
    {[driver |-> "sei", method |-> m, f |-> [name |-> "sei_model", params |-> NoParams],
      y0 |-> <<QInt(78), Zero, Zero, Zero, Zero>>,
      t_span |-> ts, h |-> Zero, n_steps_back |-> 0, num |-> n] :
        m \in {"rk4", "rk7"}, ts \in TimeSpans, n \in 1..(MaxSpan + 1)}

RkIdle ==
    /\ rkPc = "idle"
    /\ rkArgs = <<>>
    /\ t_arr = <<>>
    /\ y_arr = <<>>
    /\ step_i = 0
    /\ current_y = <<>>
    /\ y_log = <<>>

RkInit ==
    /\ rkPc = "call"
    /\ rkArgs \in ImprovedCalls \cup SolveOdeCalls \cup SeiCalls
    /\ t_arr = <<>>
    /\ y_arr = <<>>
    /\ step_i = 0
    /\ current_y = <<>>
    /\ y_log = <<>>

RkOthers == UNCHANGED <<dsVars, chaosVars, gridVars, simVars, httpVars>>

\* generate_lotka.py lines 17-24
ImprovedAllocate ==
    /\ rkPc = "call"
    /\ rkArgs.driver = "improved"
    /\ LET t == improved_t(rkArgs.t_span, rkArgs.h)
       IN  /\ t_arr' = t
           /\ y_arr' = ZerosWithInit(Len(t), rkArgs.y0)
           /\ y_log' = LogInit(Len(t))
    /\ step_i' = 0
    /\ rkPc' = "bootstrap"
    /\ UNCHANGED <<rkArgs, current_y>>
    /\ RkOthers

\* the range of the first loop, line 25
BootstrapCount == Min(rkArgs.n_steps_back, Len(t_arr) - 1)

\* lines 25-32, one iteration
BootstrapStep ==
    /\ rkPc = "bootstrap"
    /\ step_i < BootstrapCount
    /\ y_arr' = PySet(y_arr, step_i + 1,
                      bootstrap_step(rkArgs.f, PyAt(t_arr, step_i), PyAt(y_arr, step_i), rkArgs.h))
    /\ y_log' = LogWrite(y_log, step_i + 1, "rk4")
    /\ step_i' = step_i + 1
    /\ UNCHANGED <<rkPc, rkArgs, t_arr, current_y>>
    /\ RkOthers

\* the first loop is exhausted; the second starts at i = n_steps_back (line 34)
BootstrapEnd ==
    /\ rkPc = "bootstrap"
    /\ step_i >= BootstrapCount
    /\ step_i' = rkArgs.n_steps_back
    /\ rkPc' = "two_point"
    /\ UNCHANGED <<rkArgs, t_arr, y_arr, current_y, y_log>>
    /\ RkOthers

\* the Python indices of y that iteration i of the second loop reads
\* (lines 35-51: y[i] and y[i - 1])
TwoPointReads(i) == {i, i - 1}

\* the index that iteration i of the first loop reads (lines 26-30: y[i])
BootstrapReads(i) == {i}

\* lines 34-62, one iteration
TwoPointStep ==
    /\ rkPc = "two_point"
    /\ step_i < Len(t_arr) - 1
    /\ y_arr' = PySet(y_arr, step_i + 1,
                      two_point_step(rkArgs.f, PyAt(t_arr, step_i), PyAt(y_arr, step_i),
                                     PyAt(t_arr, step_i - 1), PyAt(y_arr, step_i - 1),
                                     rkArgs.h))
    /\ y_log' = LogWrite(y_log, step_i + 1, "two_point")
    /\ step_i' = step_i + 1
    /\ UNCHANGED <<rkPc, rkArgs, t_arr, current_y>>
    /\ RkOthers

\* line 64
ImprovedReturn ==
    /\ rkPc = "two_point"
    /\ step_i >= Len(t_arr) - 1
    /\ rkPc' = "returned"
    /\ UNCHANGED <<rkArgs, t_arr, y_arr, step_i, current_y, y_log>>
    /\ RkOthers

\* generate_chaos.py lines 71-75 (the calls of the model have a grid of at
\* least one point: t_span[1] > t_span[0] and h > 0)
SolveOdeAllocate ==
    /\ rkPc = "call"
    /\ rkArgs.driver = "solve_ode"
    /\ LET t_values == solve_ode_t(rkArgs.t_span, rkArgs.h)
       IN  /\ t_arr' = t_values
           /\ y_arr' = ZerosWithInit(Len(t_values), rkArgs.y0)
           /\ y_log' = LogInit(Len(t_values))
    /\ current_y' = rkArgs.y0
    /\ step_i' = 1
    /\ rkPc' = "solve_loop"
    /\ UNCHANGED rkArgs
    /\ RkOthers

\* method(f, t, y, h, params)
Method(m, f, t, s, step) ==
    IF m = "rk4_classic" THEN rk4_classic(f, t, s, step) ELSE rk5_butcher(f, t, s, step)

\* lines 76-78, one iteration
SolveOdeStep ==
    /\ rkPc = "solve_loop"
    /\ step_i < Len(t_arr)
    /\ LET next == Method(rkArgs.method, rkArgs.f, PyAt(t_arr, step_i - 1), current_y, rkArgs.h)
       IN  /\ current_y' = next
           /\ y_arr' = PySet(y_arr, step_i, next)
    /\ y_log' = LogWrite(y_log, step_i, rkArgs.method)
    /\ step_i' = step_i + 1
    /\ UNCHANGED <<rkPc, rkArgs, t_arr>>
    /\ RkOthers

\* line 80
SolveOdeReturn ==
    /\ rkPc = "solve_loop"
    /\ step_i >= Len(t_arr)
    /\ rkPc' = "returned"
    /\ UNCHANGED <<rkArgs, t_arr, y_arr, step_i, current_y, y_log>>
    /\ RkOthers

\* generate_sei.py lines 20-23 (42-45), t as simulate_sei_model builds it (line 126)
SeiAllocate ==
    /\ rkPc = "call"
    /\ rkArgs.driver = "sei"
    /\ t_arr' = linspace(rkArgs.t_span[1], rkArgs.t_span[2], rkArgs.num)
    /\ y_arr' = ZerosWithInit(rkArgs.num, rkArgs.y0)
    /\ y_log' = LogInit(rkArgs.num)
    /\ step_i' = 0
    /\ rkPc' = "grid_loop"
    /\ UNCHANGED <<rkArgs, current_y>>
    /\ RkOthers

\* lines 24-32 (46-68), one iteration
SeiStep ==
    /\ rkPc = "grid_loop"
    /\ step_i < Len(t_arr) - 1
    /\ y_arr' = PySet(y_arr, step_i + 1,
                      IF rkArgs.method = "rk4"
                      THEN sei_rk4_step(rkArgs.f, t_arr, PyAt(y_arr, step_i), step_i)
                      ELSE sei_rk7_step(rkArgs.f, t_arr, PyAt(y_arr, step_i), step_i))
    /\ y_log' = LogWrite(y_log, step_i + 1, rkArgs.method)
    /\ step_i' = step_i + 1
    /\ UNCHANGED <<rkPc, rkArgs, t_arr, current_y>>
    /\ RkOthers

\* line 33 (69)
SeiReturn ==
    /\ rkPc = "grid_loop"
    /\ step_i >= Len(t_arr) - 1
    /\ rkPc' = "returned"
    /\ UNCHANGED <<rkArgs, t_arr, y_arr, step_i, current_y, y_log>>
    /\ RkOthers

RkNext ==
    \/ ImprovedAllocate \/ BootstrapStep \/ BootstrapEnd \/ TwoPointStep \/ ImprovedReturn
    \/ SolveOdeAllocate \/ SolveOdeStep \/ SolveOdeReturn
    \/ SeiAllocate \/ SeiStep \/ SeiReturn

-----------------------------------------------------------------------------
(* The time grids of one session: the integrators of the repository run    *)
(* over one time span with one step, as the generators run them            *)
(* (generate_chaos.py lines 157-158, generate_lotka.py line 109,           *)
(* generate_sei.py lines 126-134).                                         *)

SolveOdeMethods == {"rk4_classic", "rk5_butcher"}

SeiMethods == {"rk4", "rk7"}

GridRuns == SolveOdeMethods \cup {"improved_rk5", "t"} \cup SeiMethods

NotRun == <<>>

GridIdle ==
    /\ gridArgs = <<>>
    /\ grids = <<>>

GridInit ==
    /\ gridArgs \in [t_span : TimeSpans, h : StepSizes, num : 1..(MaxSpan + 1)]
    /\ grids = [r \in GridRuns |-> NotRun]

GridOthers == UNCHANGED <<dsVars, chaosVars, rkVars, simVars, httpVars>>

\* t, y = solve_ode(method, f, t_span, y0, h, params): the t returned
GridSolveOde ==
    /\ gridArgs # <<>>
    /\ \E m \in SolveOdeMethods :
        /\ grids[m] = NotRun
        /\ grids' = [grids EXCEPT ![m] = solve_ode_t(gridArgs.t_span, gridArgs.h)]
    /\ UNCHANGED gridArgs
    /\ GridOthers

\* t, y = improved_rk5_lotka_volterra(f, t_span, y0, h): the t returned
GridImproved ==
    /\ gridArgs # <<>>
    /\ grids["improved_rk5"] = NotRun
    /\ grids' = [grids EXCEPT !["improved_rk5"] = improved_t(gridArgs.t_span, gridArgs.h)]
    /\ UNCHANGED gridArgs
    /\ GridOthers

\* generate_sei.py line 126: t = np.linspace(start, stop, num)
GridLinspace ==
    /\ gridArgs # <<>>
    /\ grids["t"] = NotRun
    /\ grids' = [grids EXCEPT !["t"] = linspace(gridArgs.t_span[1], gridArgs.t_span[2],
                                                gridArgs.num)]
    /\ UNCHANGED gridArgs
    /\ GridOthers

\* rk4(f, y0, t) / rk7(f, y0, t): row i of the result is the state at t[i]
GridSei ==
    /\ gridArgs # <<>>
    /\ grids["t"] # NotRun
    /\ \E m \in SeiMethods :
        /\ grids[m] = NotRun
        /\ grids' = [grids EXCEPT ![m] = [i \in 1..Len(grids["t"]) |-> grids["t"][i]]]
    /\ UNCHANGED gridArgs
    /\ GridOthers

GridNext == GridSolveOde \/ GridImproved \/ GridLinspace \/ GridSei

-----------------------------------------------------------------------------
(* simulate_lotka_volterra and simulate_sei_model: from the trajectories to *)
(* the result dict.  An array is held as its origin, the row indices it     *)
(* holds, in order, and whether it went through round_array; a scalar as    *)
(* its origin, its index and whether it went through round_value.           *)

\* generate_lotka.py lines 102-103
LOTKA_T_SPAN == <<Zero, QInt(50)>>

LOTKA_H == Q(1, 20)

\* downsample_series(array, limit=400)
DEFAULT_LIMIT == 400

\* generate_lotka.py line 117
SNAPSHOTS == 8

\* improved_rk5_lotka_volterra(..., n_steps_back=1, ...)
DEFAULT_BACK == 1

\* generate_sei.py line 126
SEI_POINTS == 2001

\* generate_sei.py line 138
SEI_LIMIT == 300

\* generate_sei.py line 141
labels == <<"S", "E", "I1", "I2", "R">>

Array(of, n) == [of |-> of, idx |-> Iota(n), rounded |-> FALSE]

Scalar(of, k) == [of |-> of, at |-> k, rounded |-> FALSE]

\* round_array(array) and round_value(value)
round_array(a) == [a EXCEPT !.rounded = TRUE]

round_value(v) == [v EXCEPT !.rounded = TRUE]

\* downsample_series(array, limit): every array it may return
downsample_series(a, limit) ==
    {[a EXCEPT !.idx = Take(a.idx, ix)] : ix \in downsample_idx(Len(a.idx), limit)}

\* array[idx] and array[idx, :]
pick_rows(a, ix) == [a EXCEPT !.idx = Take(a.idx, ix)]

\* y[:, c]
Col(a, c) == [a EXCEPT !.of = c]

\* the stages list of an integrator: None without collect_stages, else one
\* record per step, in step order, with its number of derivatives
NoStages == [is_none |-> TRUE, list |-> <<>>]

\* the records appended by a loop `for i in range(a, b)` whose body appends
\* one record of `size` derivatives
RangeStages(a, b, size) ==
    [k \in 1..Max(0, b - a) |-> [step |-> a + k - 1, derivatives |-> size]]

\* generate_lotka.py lines 24-32 and 34, 61-62: stages = [], then the appends
\* of the first loop (k1..k4) and of the second (k1..k5, k_1..k_5)
improved_stages(n, n_steps_back) ==
    [is_none |-> FALSE,
     list |-> RangeStages(0, Min(n_steps_back, n - 1), 4) \o RangeStages(n_steps_back, n - 1, 10)]

\* generate_sei.py lines 23-24, 31-32
rk4_stages_of(n) == [is_none |-> FALSE, list |-> RangeStages(0, n - 1, 4)]

\* generate_sei.py lines 45-46, 59-68
rk7_stages_of(n) == [is_none |-> FALSE, list |-> RangeStages(0, n - 1, 7)]

\* the stage records of the steps that end at the selected indices
mapped_stages_of_arrival(stages, ds_idx) ==
    [j \in 1..Len(ds_idx) |-> PyAt(stages, Max(ds_idx[j] - 1, 0))]

\* [min(i, max_stage_index) for i in ds_idx], then the stages at those indices
mapped_stages(stages, ds_idx) ==
    LET max_stage_index == Len(stages) - 1
    IN  [j \in 1..Len(ds_idx) |-> PyAt(stages, Min(ds_idx[j], max_stage_index))]

SimIdle ==
    /\ simPc = "idle"
    /\ simArgs = <<>>
    /\ locals = <<>>
    /\ result = <<>>

SimInit ==
    /\ simPc = "call"
    /\ simArgs \in [program : {"lotka", "sei"}, collect_full : BOOLEAN,
                    collect_stages : BOOLEAN, include_notes : BOOLEAN]
    /\ locals = <<>>
    /\ result = <<>>

SimOthers == UNCHANGED <<dsVars, chaosVars, rkVars, gridVars, httpVars>>

\* generate_lotka.py lines 102-109
SimLotkaIntegrate ==
    /\ simPc = "call"
    /\ simArgs.program = "lotka"
    /\ LET n == n_steps(LOTKA_T_SPAN, LOTKA_H)
       IN  locals' = [t |-> Array("t", n), y |-> Array("y", n),
                      stages |-> IF simArgs.collect_stages THEN improved_stages(n, DEFAULT_BACK)
                                 ELSE NoStages]
    /\ simPc' = "downsample"
    /\ UNCHANGED <<simArgs, result>>
    /\ SimOthers

\* lines 111-114
SimLotkaDownsample ==
    /\ simPc = "downsample"
    /\ simArgs.program = "lotka"
    /\ LET Kept(a) == IF simArgs.collect_full THEN {a} ELSE downsample_series(a, DEFAULT_LIMIT)
       IN  \E a \in Kept(locals.t), b \in Kept(Col(locals.y, "y[:, 0]")),
              c \in Kept(Col(locals.y, "y[:, 1]")) :
                locals' = locals @@
                    [ds_time |-> round_array(a), prey |-> round_array(b),
                     predator |-> round_array(c),
                     phase |-> [of |-> "stack(prey, predator)", idx |-> b.idx,
                                idx2 |-> c.idx, rounded |-> TRUE]]
    /\ simPc' = "snapshots"
    /\ UNCHANGED <<simArgs, result>>
    /\ SimOthers

\* lines 116-124
SimLotkaSnapshots ==
    /\ simPc = "snapshots"
    /\ \E ix \in linspace_int(Len(locals.t.idx) - 1, SNAPSHOTS) :
        locals' = locals @@
            [snapshots |-> [j \in 1..SNAPSHOTS |->
                [time |-> round_value(Scalar("t", ix[j])),
                 prey |-> round_value(Scalar("y[:, 0]", ix[j])),
                 predator |-> round_value(Scalar("y[:, 1]", ix[j]))]]]
    /\ simPc' = "result"
    /\ UNCHANGED <<simArgs, result>>
    /\ SimOthers

\* lines 125-139
SimLotkaResult ==
    /\ simPc = "result"
    /\ simArgs.program = "lotka"
    /\ result' = [time |-> locals.ds_time, prey |-> locals.prey,
                  predator |-> locals.predator, phase_points |-> locals.phase,
                  snapshots |-> locals.snapshots,
                  parameters |-> [alpha |-> QInt(1), beta |-> Q(1, 10), delta |-> Q(1, 10),
                                  gamma |-> QInt(1),
                                  step |-> round_value(Scalar("h", 0)),
                                  time_span |-> <<round_value(Scalar("t_span", 0)),
                                                  round_value(Scalar("t_span", 1))>>]]
    /\ simPc' = "full"
    /\ UNCHANGED <<simArgs, locals>>
    /\ SimOthers

\* lines 141-146
SimLotkaFull ==
    /\ simPc = "full"
    /\ simArgs.program = "lotka"
    /\ IF simArgs.collect_full
       THEN result' = result @@
                [full |-> [time |-> round_array(locals.t),
                           prey_full |-> round_array(Col(locals.y, "y[:, 0]")),
                           predator_full |-> round_array(Col(locals.y, "y[:, 1]"))]]
       ELSE UNCHANGED result
    /\ simPc' = "stages"
    /\ UNCHANGED <<simArgs, locals>>
    /\ SimOthers

\* lines 148-152
SimLotkaStages ==
    /\ simPc = "stages"
    /\ simArgs.program = "lotka"
    /\ IF simArgs.collect_stages /\ ~locals.stages.is_none
       THEN \E ds_idx \in linspace_int(Len(locals.t.idx) - 1, Len(locals.ds_time.idx)) :
                result' = result @@ [stages |-> mapped_stages(locals.stages.list, ds_idx)]
       ELSE UNCHANGED result
    /\ simPc' = "return"
    /\ UNCHANGED <<simArgs, locals>>
    /\ SimOthers

\* generate_sei.py lines 126-134
SimSeiIntegrate ==
    /\ simPc = "call"
    /\ simArgs.program = "sei"
    /\ locals' = [t |-> Array("t", SEI_POINTS),
                  rk4_res |-> Array("rk4_res", SEI_POINTS),
                  rk7_res |-> Array("rk7_res", SEI_POINTS),
                  rk4_stages |-> IF simArgs.collect_stages THEN rk4_stages_of(SEI_POINTS)
                                 ELSE NoStages,
                  rk7_stages |-> IF simArgs.collect_stages THEN rk7_stages_of(SEI_POINTS)
                                 ELSE NoStages]
    /\ simPc' = "diff"
    /\ UNCHANGED <<simArgs, result>>
    /\ SimOthers

\* line 136
SimSeiDiff ==
    /\ simPc = "diff"
    /\ locals' = locals @@
            [diff_abs |-> [of |-> "abs(rk4_res - rk7_res)", idx |-> locals.rk4_res.idx,
                           rounded |-> FALSE]]
    /\ simPc' = "downsample"
    /\ UNCHANGED <<simArgs, result>>
    /\ SimOthers

\* lines 138-139
SimSeiDownsample ==
    /\ simPc = "downsample"
    /\ simArgs.program = "sei"
    /\ \E ds_time \in (IF simArgs.collect_full THEN {locals.t}
                       ELSE downsample_series(locals.t, SEI_LIMIT)) :
        \E ix \in linspace_int(Len(locals.t.idx) - 1, Len(ds_time.idx)) :
            locals' = locals @@ [ds_time |-> ds_time, idx |-> ix]
    /\ simPc' = "pick"
    /\ UNCHANGED <<simArgs, result>>
    /\ SimOthers

\* lines 143-148
SimSeiPick ==
    /\ simPc = "pick"
    /\ locals' = locals @@
            [rk4_ds |-> round_array(pick_rows(locals.rk4_res, locals.idx)),
             rk7_ds |-> round_array(pick_rows(locals.rk7_res, locals.idx)),
             diff_ds |-> round_array(pick_rows(locals.diff_abs, locals.idx))]
    /\ simPc' = "stats"
    /\ UNCHANGED <<simArgs, result>>
    /\ SimOthers

\* lines 150-158
SimSeiStats ==
    /\ simPc = "stats"
    /\ locals' = locals @@
            [stats |-> [i \in 1..Len(labels) |->
                [label |-> labels[i],
                 max_abs |-> round_value(Scalar("max(diff_abs[:, i])", i - 1)),
                 mean_abs |-> round_value(Scalar("mean(diff_abs[:, i])", i - 1))]]]
    /\ simPc' = "result"
    /\ UNCHANGED <<simArgs, result>>
    /\ SimOthers

\* lines 160-169
SimSeiResult ==
    /\ simPc = "result"
    /\ simArgs.program = "sei"
    /\ result' = [time |-> round_array(locals.ds_time), labels |-> labels,
                  rk4 |-> locals.rk4_ds, rk7 |-> locals.rk7_ds,
                  diff_abs |-> locals.diff_ds, stats |-> locals.stats,
                  step |-> round_value(Scalar("t[1] - t[0]", 0)),
                  time_window |-> <<round_value(Scalar("t", 0)),
                                    round_value(Scalar("t", Len(locals.t.idx) - 1))>>]
    /\ simPc' = "full"
    /\ UNCHANGED <<simArgs, locals>>
    /\ SimOthers

\* lines 171-177
SimSeiFull ==
    /\ simPc = "full"
    /\ simArgs.program = "sei"
    /\ IF simArgs.collect_full
       THEN result' = result @@
                [full |-> [time |-> round_array(locals.t),
                           rk4_full |-> round_array(locals.rk4_res),
                           rk7_full |-> round_array(locals.rk7_res),
                           diff_full |-> round_array(locals.diff_abs)]]
       ELSE UNCHANGED result
    /\ simPc' = "stages"
    /\ UNCHANGED <<simArgs, locals>>
    /\ SimOthers

\* lines 179-187
SimSeiStages ==
    /\ simPc = "stages"
    /\ simArgs.program = "sei"
    /\ IF /\ simArgs.collect_stages
          /\ ~locals.rk4_stages.is_none
          /\ ~locals.rk7_stages.is_none
       THEN result' = result @@
                [stages |-> [rk4 |-> mapped_stages(locals.rk4_stages.list, locals.idx),
                             rk7 |-> mapped_stages(locals.rk7_stages.list, locals.idx)]]
       ELSE UNCHANGED result
    /\ simPc' = "return"
    /\ UNCHANGED <<simArgs, locals>>
    /\ SimOthers

\* return result (generate_lotka.py line 154, generate_sei.py line 189)
SimReturn ==
    /\ simPc = "return"
    /\ simPc' = "returned"
    /\ UNCHANGED <<simArgs, locals, result>>
    /\ SimOthers

SimNext ==
    \/ SimLotkaIntegrate \/ SimLotkaDownsample \/ SimLotkaSnapshots \/ SimLotkaResult
    \/ SimLotkaFull \/ SimLotkaStages
    \/ SimSeiIntegrate \/ SimSeiDiff \/ SimSeiDownsample \/ SimSeiPick \/ SimSeiStats
    \/ SimSeiResult \/ SimSeiFull \/ SimSeiStages
    \/ SimReturn

-----------------------------------------------------------------------------
(* run.py: Handler.do_POST, one request.  send_response and send_header    *)
(* append to the handler's header buffer, end_headers writes the buffer to *)
(* the client and clears it, wfile.write writes the body.  The client may  *)
(* close the connection at any moment: the writes after that raise.        *)

\* the writes do_POST can attempt: two per response
MaxWrites == 4

Paths == {"/regenerate-data", "/regenerate", "/"}

\* subprocess.run(..., check=True): the script exits with zero, exits with
\* another code (CalledProcessError), or cannot be started (OSError)
RunOutcomes == {"exit_zero", "exit_nonzero", "os_error"}

Requests ==
    [path : Paths, script_exists : BOOLEAN, run : RunOutcomes, writes_ok : 0..MaxWrites]

HttpIdle ==
    /\ httpPc = "idle"
    /\ request = <<>>
    /\ headers_buffer = <<>>
    /\ wfile = <<>>
    /\ status_lines = <<>>
    /\ script_runs = 0

HttpInit ==
    /\ httpPc = "do_POST"
    /\ request \in Requests
    /\ headers_buffer = <<>>
    /\ wfile = <<>>
    /\ status_lines = <<>>
    /\ script_runs = 0

HttpOthers == UNCHANGED <<dsVars, chaosVars, rkVars, gridVars, simVars>>

\* the next write to the client succeeds
WriteOk == Len(wfile) < request.writes_ok

\* send_response(code) followed by send_header: the status line is issued
\* (and logged) and joins the buffer
send_response(code) ==
    /\ status_lines' = Append(status_lines, code)
    /\ headers_buffer' = headers_buffer \o <<[status |-> code], [header |-> "Content-type"]>>

\* line 21
HttpDoPost ==
    /\ httpPc = "do_POST"
    /\ httpPc' = IF request.path = "/regenerate-data" THEN "try" ELSE "send_error"
    /\ UNCHANGED <<request, headers_buffer, wfile, status_lines, script_runs>>
    /\ HttpOthers

\* lines 61-62: send_error(404, ...) outside the try block
HttpSendError ==
    /\ httpPc = "send_error"
    /\ status_lines' = Append(status_lines, 404)
    /\ IF WriteOk
       THEN /\ wfile' = Append(wfile, <<[status |-> 404], [body |-> "Endpoint not found"]>>)
            /\ httpPc' = "done"
       ELSE /\ UNCHANGED wfile
            /\ httpPc' = "raised"
    /\ UNCHANGED <<request, headers_buffer, script_runs>>
    /\ HttpOthers

\* lines 26-29
HttpCheckScript ==
    /\ httpPc = "try"
    /\ httpPc' = IF request.script_exists THEN "run" ELSE "except"
    /\ UNCHANGED <<request, headers_buffer, wfile, status_lines, script_runs>>
    /\ HttpOthers

\* lines 32-39
HttpRunScript ==
    /\ httpPc = "run"
    /\ script_runs' = script_runs + 1
    /\ httpPc' = IF request.run = "exit_zero" THEN "send_response" ELSE "except"
    /\ UNCHANGED <<request, headers_buffer, wfile, status_lines>>
    /\ HttpOthers

\* lines 41-42
HttpSendResponse ==
    /\ httpPc = "send_response"
    /\ send_response(200)
    /\ httpPc' = "end_headers"
    /\ UNCHANGED <<request, wfile, script_runs>>
    /\ HttpOthers

\* line 43: the buffer is cleared after the write, so not when it raises
HttpEndHeaders ==
    /\ httpPc = "end_headers"
    /\ IF WriteOk
       THEN /\ wfile' = Append(wfile, headers_buffer)
            /\ headers_buffer' = <<>>
            /\ httpPc' = "write"
       ELSE /\ UNCHANGED <<wfile, headers_buffer>>
            /\ httpPc' = "except"
    /\ UNCHANGED <<request, status_lines, script_runs>>
    /\ HttpOthers

\* lines 44-49
HttpWrite ==
    /\ httpPc = "write"
    /\ IF WriteOk
       THEN /\ wfile' = Append(wfile, <<[body |-> "success"]>>)
            /\ httpPc' = "done"
       ELSE /\ UNCHANGED wfile
            /\ httpPc' = "except"
    /\ UNCHANGED <<request, headers_buffer, status_lines, script_runs>>
    /\ HttpOthers

\* lines 51-55: except Exception, whatever statement of the try block raised
HttpExcept ==
    /\ httpPc = "except"
    /\ status_lines' = Append(status_lines, 500)
    /\ LET buffer == headers_buffer \o <<[status |-> 500], [header |-> "Content-type"]>>
       IN  IF WriteOk
           THEN /\ wfile' = Append(wfile, buffer)
                /\ headers_buffer' = <<>>
                /\ httpPc' = "write_error"
           ELSE /\ UNCHANGED wfile
                /\ headers_buffer' = buffer
                /\ httpPc' = "raised"
    /\ UNCHANGED <<request, script_runs>>
    /\ HttpOthers

\* lines 56-60
HttpWriteError ==
    /\ httpPc = "write_error"
    /\ IF WriteOk
       THEN /\ wfile' = Append(wfile, <<[body |-> "error"]>>)
            /\ httpPc' = "done"
       ELSE /\ UNCHANGED wfile
            /\ httpPc' = "raised"
    /\ UNCHANGED <<request, headers_buffer, status_lines, script_runs>>
    /\ HttpOthers

HttpNext ==
    \/ HttpDoPost \/ HttpSendError \/ HttpCheckScript \/ HttpRunScript
    \/ HttpSendResponse \/ HttpEndHeaders \/ HttpWrite \/ HttpExcept \/ HttpWriteError

-----------------------------------------------------------------------------
(* Specifications: each runs one program, the others stay idle.            *)

InitDownsample == DsInit /\ ChaosIdle /\ RkIdle /\ GridIdle /\ SimIdle /\ HttpIdle

SpecDownsample == InitDownsample /\ [][DsNext]_vars

InitChaos == ChaosInit /\ DsIdle /\ RkIdle /\ GridIdle /\ SimIdle /\ HttpIdle

SpecChaos == InitChaos /\ [][ChaosNext]_vars

InitRK == RkInit /\ DsIdle /\ ChaosIdle /\ GridIdle /\ SimIdle /\ HttpIdle

SpecRK == InitRK /\ [][RkNext]_vars

InitGrid == GridInit /\ DsIdle /\ ChaosIdle /\ RkIdle /\ SimIdle /\ HttpIdle

SpecGrid == InitGrid /\ [][GridNext]_vars

InitSim == SimInit /\ DsIdle /\ ChaosIdle /\ RkIdle /\ GridIdle /\ HttpIdle

SpecSim == InitSim /\ [][SimNext]_vars

InitHttp == HttpInit /\ DsIdle /\ ChaosIdle /\ RkIdle /\ GridIdle /\ SimIdle

SpecHttp == InitHttp /\ [][HttpNext]_vars

-----------------------------------------------------------------------------
(* Claims.                                                                 *)

NonDecreasing(idx) == \A j \in 1..(Len(idx) - 1) : idx[j] <= idx[j + 1]

InRange(idx, n) == \A j \in 1..Len(idx) : idx[j] \in 0..(n - 1)

Selected(idx) == {idx[j] : j \in 1..Len(idx)}

DsShape ==
    /\ Len(dsOut) = Min(Len(dsArray), dsLimit)
    /\ Len(dsIdx) = Len(dsOut)
    /\ InRange(dsIdx, Len(dsArray))
    /\ NonDecreasing(dsIdx)
    /\ dsOut = Take(dsArray, dsIdx)

\* C1 as stated: for N >= 1 and L >= 1 the result has length min(N, L), its
\* elements are input elements at non-decreasing indices, and index 0 and
\* index N - 1 are both selected.
C1_FirstAndLastKept ==
    (dsPc = "returned" /\ Len(dsArray) >= 1 /\ dsLimit >= 1) =>
        /\ DsShape
        /\ 0 \in Selected(dsIdx)
        /\ (Len(dsArray) - 1) \in Selected(dsIdx)

\* C1 amended: as above, but the last element is selected only when L >= 2
\* or N <= L; with L = 1 < N the result is the first element alone.
C1_Downsample ==
    (dsPc = "returned" /\ Len(dsArray) >= 1 /\ dsLimit >= 1) =>
        /\ DsShape
        /\ 0 \in Selected(dsIdx)
        /\ (dsLimit >= 2 \/ Len(dsArray) <= dsLimit) =>
              (Len(dsArray) - 1) \in Selected(dsIdx)
        /\ (dsLimit = 1 /\ Len(dsArray) > 1) => dsIdx = <<0>>

\* a truncating call in which the cast fell below an exact interior index:
\* 9 elements to 7, position 3 of the result is index 3 rather than 4
C1_Witness ==
    /\ dsPc = "returned"
    /\ Len(dsArray) = 9
    /\ dsLimit = 7
    /\ dsIdx = <<0, 1, 2, 3, 5, 6, 8>>
    /\ dsOut = <<7, 10, 13, 16, 22, 25, 31>>

RecognizedKeys == {"timeStep", "initX", "force", "damping"}

Has(k) == argv.kind = "object" /\ k \in DOMAIN argv.obj

\* the override is malformed: no JSON, no JSON object, or a recognized key
\* whose value is no number
Malformed ==
    \/ argv.kind \in {"invalid_json", "not_object"}
    \/ \E k \in RecognizedKeys : Has(k) /\ ~argv.obj[k].ok

AtDefaults ==
    /\ h = H_DEFAULT
    /\ y0 = Y0_DEFAULT
    /\ system_params = SYSTEM_PARAMS_DEFAULT

\* C3: after override handling a malformed override has left h, y0 and every
\* parameter of the three systems at their defaults.
C3_MalformedDiscarded == (pc # "parse" /\ Malformed) => AtDefaults

\* C4: no override input aborts the run: the script never ends in an
\* uncaught exception before the payload is written.
C4_NeverAborts == pc # "aborted"

\* the quantity q is at its default unless key k is present with a numeric
\* value, and then it is that value or (when a later value was malformed and
\* q is assigned after it) the default
Framed(q, dflt, k) == q # dflt => (Has(k) /\ argv.obj[k].ok /\ q = argv.obj[k].v)

\* key k, when present in a well-formed override, sets q
Sets(k, q) == (Has(k) /\ ~Malformed) => q = argv.obj[k].v

\* C9: after override handling, each recognized key has changed exactly the
\* quantities of its mapping (timeStep: h; initX: y0[0]; force: Lorenz rho,
\* Chen c, Rossler c; damping: Lorenz beta, Chen b); Lorenz sigma, Chen a,
\* Rossler a and b, y0[1] and y0[2] keep their defaults under every override,
\* and without recognized keys everything is at its default.
C9_OverrideFrame ==
    pc # "parse" =>
        /\ system_params.Lorenz.sigma = SYSTEM_PARAMS_DEFAULT.Lorenz.sigma
        /\ system_params.Chen.a = SYSTEM_PARAMS_DEFAULT.Chen.a
        /\ system_params.Rossler.a = SYSTEM_PARAMS_DEFAULT.Rossler.a
        /\ system_params.Rossler.b = SYSTEM_PARAMS_DEFAULT.Rossler.b
        /\ y0[2] = Y0_DEFAULT[2]
        /\ y0[3] = Y0_DEFAULT[3]
        /\ Framed(h, H_DEFAULT, "timeStep")
        /\ Framed(y0[1], Y0_DEFAULT[1], "initX")
        /\ Framed(system_params.Lorenz.rho, SYSTEM_PARAMS_DEFAULT.Lorenz.rho, "force")
        /\ Framed(system_params.Chen.c, SYSTEM_PARAMS_DEFAULT.Chen.c, "force")
        /\ Framed(system_params.Rossler.c, SYSTEM_PARAMS_DEFAULT.Rossler.c, "force")
        /\ Framed(system_params.Lorenz.beta, SYSTEM_PARAMS_DEFAULT.Lorenz.beta, "damping")
        /\ Framed(system_params.Chen.b, SYSTEM_PARAMS_DEFAULT.Chen.b, "damping")
        /\ Sets("timeStep", h)
        /\ Sets("initX", y0[1])
        /\ Sets("force", system_params.Lorenz.rho)
        /\ Sets("force", system_params.Chen.c)
        /\ Sets("force", system_params.Rossler.c)
        /\ Sets("damping", system_params.Lorenz.beta)
        /\ Sets("damping", system_params.Chen.b)
        /\ (\A k \in RecognizedKeys : ~Has(k)) => AtDefaults

\* a well-formed override with force, damping and an unrecognized key, applied
C9_Witness ==
    /\ pc = "compute"
    /\ DOMAIN argv.obj = {"force", "damping", "verbose"}
    /\ ~Malformed
    /\ system_params.Lorenz = [sigma |-> QInt(10), rho |-> QInt(30), beta |-> Q(5, 2)]
    /\ system_params.Chen = [a |-> QInt(35), b |-> Q(5, 2), c |-> QInt(30)]
    /\ system_params.Rossler = [a |-> Q(1, 5), b |-> Q(1, 5), c |-> QInt(30)]
    /\ h = H_DEFAULT
    /\ y0 = Y0_DEFAULT

\* entry j (from 0) of a payload array is grid index j * skip, of run rk4
StrideTime(a, skip) == \A j \in 1..Len(a) : a[j] = (j - 1) * skip

StrideColumn(a, skip, c) ==
    \A j \in 1..Len(a) : a[j] = [run |-> "rk4_classic", k |-> (j - 1) * skip, c |-> c]

MaeOver(m, n, c) ==
    /\ m.op = "mean"
    /\ m.of = "abs"
    /\ m.a = "rk4_classic"
    /\ m.b = "rk5_butcher"
    /\ m.first = <<0, 0>>
    /\ m.last = <<n - 1, n - 1>>
    /\ m.c = c

Improved == rkArgs.driver = "improved"

Returned == rkPc = "returned"

\* the formula that step k -> k + 1 of improved_rk5_lotka_volterra must use
ExpectedFormula(k) ==
    IF k < Min(rkArgs.n_steps_back, Len(t_arr) - 1) THEN "rk4" ELSE "two_point"

\* C5: in improved_rk5_lotka_volterra the first min(n_steps_back, n_steps - 1)
\* steps use the four-stage RK4 formula and every later step the two-point
\* formula, every grid index 1..n_steps-1 is written exactly once (and no
\* index more than once at any moment of the run), and with a bootstrap of at
\* least one step the state at index 1 is one classic RK4 step (weights
\* 1, 2, 2, 1 over 6) from the initial condition with the same h.
C5_BootstrapThenTwoPoint ==
    Improved =>
        /\ \A j \in 1..Len(y_log) : y_log[j].n <= 1
        /\ Returned =>
            /\ y_log[1] = [n |-> 1, by |-> "y0"]
            /\ \A k \in 0..(Len(t_arr) - 2) :
                    y_log[k + 2] = [n |-> 1, by |-> ExpectedFormula(k)]
            /\ (rkArgs.n_steps_back >= 1 /\ Len(t_arr) >= 2) =>
                    y_arr[2] = rk4_classic(rkArgs.f, t_arr[1], rkArgs.y0, rkArgs.h)

\* a finished run of h = 1 over (0, 3) with the default bootstrap of one step
\* from y0 = 0 under the relay field: index 1 holds the RK4 step 5/6, indices
\* 2 and 3 were written by the two-point formula
C5_Witness ==
    /\ Improved /\ Returned
    /\ rkArgs.n_steps_back = 1
    /\ rkArgs.f.name = "relay" /\ rkArgs.y0 = <<Zero>>
    /\ rkArgs.h = QInt(1)
    /\ Len(t_arr) = 4
    /\ y_arr[2] = <<Q(5, 6)>>
    /\ y_log[2].by = "rk4" /\ y_log[3].by = "two_point" /\ y_log[4].by = "two_point"
    /\ y_arr[4] # y_arr[3]

\* C6: the time array of solve_ode and of improved_rk5_lotka_volterra starts
\* at t_start, is strictly increasing with consecutive times exactly the h of
\* the update formula apart, and the state at index 0 is the initial condition.
C6_GridSpacedByH ==
    (rkArgs # <<>> /\ rkArgs.driver \in {"solve_ode", "improved"} /\ t_arr # <<>>) =>
        /\ t_arr[1] = rkArgs.t_span[1]
        /\ \A j \in 1..(Len(t_arr) - 1) :
                /\ QLt(t_arr[j], t_arr[j + 1])
                /\ QSub(t_arr[j + 1], t_arr[j]) = rkArgs.h
        /\ y_arr[1] = rkArgs.y0

\* C10: an integrator started where the field is zero keeps the initial state
\* at every grid index.
C10_FixedPointPreserved ==
    (Returned /\ Field(rkArgs.f, rkArgs.t_span[1], rkArgs.y0) = VZero(Len(rkArgs.y0))) =>
        \A j \in 1..Len(y_arr) : y_arr[j] = rkArgs.y0

Ran(r) == grids # <<>> /\ grids[r] # NotRun

\* h divides the time span
Divides == LET q == QDiv(QSub(gridArgs.t_span[2], gridArgs.t_span[1]), gridArgs.h)
           IN  q[2] = 1

IsPrefix(a, b) == Len(a) <= Len(b) /\ \A j \in 1..Len(a) : a[j] = b[j]

TopLevelArrays ==
    IF simArgs.program = "lotka" THEN {"time", "prey", "predator", "phase_points"}
    ELSE {"time", "rk4", "rk7", "diff_abs"}

Limit == IF simArgs.program = "lotka" THEN DEFAULT_LIMIT ELSE SEI_LIMIT

\* C2: whatever collect_full is, the top-level arrays of the returned result
\* are the rounded downsampled arrays (at most 400 / 300 entries, the rows that
\* downsample_series selects); collect_full only adds the entry `full`.
C2_FullOnlyAdds ==
    simPc = "returned" =>
        /\ \A k \in TopLevelArrays :
                /\ result[k].rounded
                /\ Len(result[k].idx) <= Limit
                /\ result[k].idx \in downsample_idx(Len(locals.t.idx), Limit)
        /\ ("full" \in DOMAIN result) <=> simArgs.collect_full

\* a payload value carries the mark of round_array / round_value
RoundingApplied(v) == "rounded" \in DOMAIN v /\ v.rounded

\* C11: every number of a written payload went through the 4-decimal
\* rounding; here for chaos_data.json: the state columns and the error
\* statistics of every system.
C11_ChaosPayloadRounded ==
    pc = "written" =>
        \A name \in DOMAIN data_payload :
            LET e == data_payload[name]
            IN  /\ \A col \in {e.rk4.x, e.rk4.y, e.rk4.z} :
                        \A j \in 1..Len(col) : RoundingApplied(col[j])
                /\ \A m \in {e.rk5_comparison_metrics.mae_x, e.rk5_comparison_metrics.mae_y,
                             e.rk5_comparison_metrics.mae_z} : RoundingApplied(m)

\* the row of y at Python index k holds a value assigned by the run (the
\* initial condition or an earlier step), at a position no later than i
WrittenUpTo(k, i) == PyPos(y_arr, k) <= i + 1 /\ y_log[PyPos(y_arr, k)].n >= 1

\* C12: every step of improved_rk5_lotka_volterra about to be taken reads
\* only rows at indices <= i that were already written; the lagged anchor
\* y[i - 1] is never a zero-initialised or later row.
C12_ReadsOnlyWritten ==
    Improved =>
        /\ (rkPc = "bootstrap" /\ step_i < BootstrapCount) =>
                \A k \in BootstrapReads(step_i) : WrittenUpTo(k, step_i)
        /\ (rkPc = "two_point" /\ step_i < Len(t_arr) - 1) =>
                \A k \in TwoPointReads(step_i) : WrittenUpTo(k, step_i)

\* stage record j of `list` belongs to step j - 1 and has `size(step)` derivatives
OnePerStep(list, n, size(_)) ==
    /\ Len(list) = n - 1
    /\ \A k \in 1..(n - 1) : list[k] = [step |-> k - 1, derivatives |-> size(k - 1)]

\* the serialized stages follow the payload time array: entry j is the record
\* of the step that starts at the grid index of time[j], the last step for
\* the final grid index
FollowsTime(serialized, time, n) ==
    /\ Len(serialized) = Len(time.idx)
    /\ \A j \in 1..Len(serialized) :
            /\ serialized[j].step \in 0..(n - 2)
            /\ serialized[j].step = IF time.idx[j] = n - 1 THEN n - 2 ELSE time.idx[j]

\* C13: with collect_stages the integrators record one stage record per step,
\* in step order (4 derivatives for an RK4 step, 7 for an RK7 step, 10 for a
\* two-point step), and the `stages` of the returned result follow its `time`
\* entry by entry, the final grid index taking the last step's record, every
\* index within the recorded steps; without collect_stages there is no
\* `stages` entry.
C13_StagesFollowTime ==
    simPc = "returned" =>
        LET n == Len(locals.t.idx)
            lotka_size(i) == IF i < DEFAULT_BACK THEN 4 ELSE 10
            rk4_size(i) == 4
            rk7_size(i) == 7
        IN  /\ ("stages" \in DOMAIN result) <=> simArgs.collect_stages
            /\ (simArgs.collect_stages /\ simArgs.program = "lotka") =>
                    /\ OnePerStep(locals.stages.list, n, lotka_size)
                    /\ FollowsTime(result.stages, result.time, n)
                    /\ \A j \in 1..Len(result.stages) :
                            result.stages[j] = locals.stages.list[result.stages[j].step + 1]
            /\ (simArgs.collect_stages /\ simArgs.program = "sei") =>
                    /\ OnePerStep(locals.rk4_stages.list, n, rk4_size)
                    /\ OnePerStep(locals.rk7_stages.list, n, rk7_size)
                    /\ FollowsTime(result.stages.rk4, result.time, n)
                    /\ FollowsTime(result.stages.rk7, result.time, n)
                    /\ \A j \in 1..Len(result.stages.rk4) :
                            /\ result.stages.rk4[j].derivatives = 4
                            /\ result.stages.rk7[j].derivatives = 7

\* simulate_lotka_volterra(collect_stages=True) has returned: 1000 records
\* for 1001 grid points, 400 serialized, the first of the bootstrap step, the
\* second of the two-point step from index 2, the last of step 999
C13_Witness ==
    /\ simPc = "returned"
    /\ simArgs.program = "lotka" /\ simArgs.collect_stages /\ ~simArgs.collect_full
    /\ Len(locals.stages.list) = 1000
    /\ Len(result.stages) = 400 /\ Len(result.time.idx) = 400
    /\ result.stages[1] = [step |-> 0, derivatives |-> 4]
    /\ result.time.idx[2] = 2
    /\ result.stages[2] = [step |-> 2, derivatives |-> 10]
    /\ result.time.idx[400] = 1000
    /\ result.stages[400] = [step |-> 999, derivatives |-> 10]

\* the status do_POST owes the request
ExpectedStatus ==
    IF request.path # "/regenerate-data" THEN 404
    ELSE IF request.script_exists /\ request.run = "exit_zero" THEN 200
    ELSE 500

\* C14: do_POST issues exactly one status per request (404 off the endpoint,
\* 200 exactly when the script exists and exits with zero, 500 otherwise),
\* never a 500 after a 200, and starts the script at most once.
C14_OneStatusPerRequest ==
    /\ Len(status_lines) <= 1
    /\ script_runs <= 1
    /\ httpPc \in {"done", "raised"} => status_lines = <<ExpectedStatus>>

=============================================================================
